---- MODULE Spec2Model ----
(***************************************************************************)
(* Model of oss-cache (src/index.js): a registry of named in-memory caches,*)
(* each loaded by an asynchronous loader and reloaded by a periodic timer  *)
(* once its TTL has elapsed, or by an explicit refresh().                  *)
(*                                                                         *)
(* An async function is split at its only real suspension point, the await *)
(* of the loader: the synchronous part of load() up to the call of the     *)
(* loader is one step, the continuation after the loader settles (with the *)
(* continuations of the callers awaiting it) is another.                   *)
(***************************************************************************)
EXTENDS Integers, Sequences, FiniteSets, TLC

(***************************************************************************)
(* Bounds of the model.                                                    *)
(***************************************************************************)
MaxInst == 2          \* cache instances ever initialised by create
MaxLoads == 3         \* loader invocations started, over all instances
MaxClock == 12        \* clock steps observed of a single instance
MaxClockMany == 1     \* clock steps observed of several instances
MaxClockTimer == 22   \* clock steps observed of an instance left to its timer
MaxLoadsTwin == 4     \* loader invocations started by two instances in step

(***************************************************************************)
(* Program constants.                                                      *)
(***************************************************************************)
MinTtl == 1000        \* ttl < 1000 is rejected
CheckDivisor == 10    \* checkTimeMs = ttl / 10

Insts == 1 .. MaxInst
NoInst == 0
NoTimer == -1         \* checkCacheInterval undefined or cleared
NoTimestamp == -1     \* lastLoadTimestamp undefined

(***************************************************************************)
(* JavaScript values handed in as a cache name: a string is a sequence of  *)
(* characters.                                                             *)
(***************************************************************************)
Str(s) == [t |-> "string", s |-> s]
UndefinedValue == [t |-> "undefined", s |-> <<>>]
NumberValue == [t |-> "number", s |-> <<"7">>]
NameInputs ==
    {Str(<<"a">>), Str(<<"b">>), Str(<<>>), Str(<<" ">>), UndefinedValue, NumberValue}

RECURSIVE TrimStart(_)
TrimStart(s) == IF s # <<>> /\ Head(s) = " " THEN TrimStart(Tail(s)) ELSE s

RECURSIVE TrimEnd(_)
TrimEnd(s) ==
    IF s # <<>> /\ s[Len(s)] = " " THEN TrimEnd(SubSeq(s, 1, Len(s) - 1)) ELSE s

trim(s) == TrimEnd(TrimStart(s))

\* !name: undefined and the empty string are falsy
Falsy(v) == v.t = "undefined" \/ (v.t = "string" /\ v.s = <<>>)

\* the check without name.trim()
validateNameNoTrim(v) == ~(Falsy(v) \/ v.t # "string")

\* validateName(name) does not throw
validateName(v) == ~(Falsy(v) \/ v.t # "string" \/ Len(trim(v.s)) = 0)

ValidNames == {v \in NameInputs : validateName(v)}

(***************************************************************************)
(* The other inputs of create.                                             *)
(***************************************************************************)
TtlInputs == {MinTtl - 1, MinTtl}
LoaderInputs == {"AsyncFunction", "Function", "undefined"}

\* logEmitter: an EventEmitter, or left out
LogEmitterInputs == {"EventEmitter", "undefined"}
\* config.logEmitter?.emit(...): the events are emitted when there is an emitter
Emit(lg, events) == IF lg # "undefined" THEN events ELSE <<>>
Event(ev, args) == [ev |-> ev, args |-> args]

validLoader(l) == ~(l = "undefined" \/ l # "AsyncFunction")
\* ttl <= 1000 instead of ttl < 1000
validTtlStrict(t) == ~(t <= MinTtl)
validTtl(t) == ~(t < MinTtl)
checkTimeMs(t) == t \div CheckDivisor

(***************************************************************************)
(* Data sets a loader may return (a Map from keys to values) and errors it *)
(* may throw.  Map.get of a key that is not in the map is undefined.       *)
(***************************************************************************)
undefined == "undefined"
EmptyMap == [k \in {} |-> undefined]
DataSets == {[k \in {"k1"} |-> "v1"], [k \in {"k3"} |-> "v3"]}
LoaderErrors == {"E1", "E2"}
KeyInputs == {"k1", "k3", "null"}
NoError == "none"

MapGet(m, k) == IF k \in DOMAIN m THEN m[k] ELSE undefined

\* The clock is read at the instants the interval of a cache with the least ttl
\* fires; it starts at a positive time, as Date.now() does.
TimeStep == checkTimeMs(MinTtl)
StartTime == TimeStep

\* What a run observes: one instance over a long time, or several over a short one.
Scenarios ==
    {[inst |-> 1, clock |-> MaxClock, loads |-> MaxLoads, twin |-> FALSE,
      log |-> {"EventEmitter"}, hist |-> FALSE],
     [inst |-> MaxInst, clock |-> MaxClockMany, loads |-> MaxLoads, twin |-> FALSE,
      log |-> {"EventEmitter"}, hist |-> FALSE]}

\* One instance that is created and then left to its timer.
TimerScenario ==
    [inst |-> 1, clock |-> MaxClockTimer, loads |-> MaxLoads, twin |-> FALSE,
     log |-> {"EventEmitter"}, hist |-> FALSE]

\* One instance that is created, refreshed and never destroyed, with the start
\* time of each loader call kept.
RecoverScenario ==
    [inst |-> 1, clock |-> MaxClock, loads |-> MaxLoads, twin |-> FALSE,
     log |-> {"EventEmitter"}, hist |-> TRUE]

\* Two instances that are handed the same calls, ticks and loader outcomes, one
\* created with an emitter and one without.
TwinScenario ==
    [inst |-> 2, clock |-> MaxClock, loads |-> MaxLoadsTwin, twin |-> TRUE,
     log |-> LogEmitterInputs, hist |-> FALSE]

VARIABLES
    now,                \* Date.now()
    caches,             \* the registry: name -> instance (NoInst: no entry)
    pc,                 \* per instance: "free", "init", "live", "failed"
    cfgName,            \* config.name
    cfgTtl,             \* config.ttl
    cfgLog,             \* config.logEmitter
    map,                \* the cache map
    isOutdated,
    count,
    lastLoadTimestamp,
    isForcedReload,
    checkCacheInterval, \* due time of the next tick of the interval, or NoTimer
    inflight,           \* loader invocations that have not settled
    shut,               \* history: [shutdown]() was called on the instance
    newest,             \* history: how the load attempt started last has ended
    failedAt,           \* history: start time of the attempt that failed, if none
                        \* has succeeded since
    unhandled,          \* a promise was rejected with no handler attached
    last,               \* history: the step taken last and what it returned
    emitted,            \* history: the events the step taken last has emitted
    scenario            \* the bounds of this run

vars ==
    <<now, caches, pc, cfgName, cfgTtl, cfgLog, map, isOutdated, count,
      lastLoadTimestamp, isForcedReload, checkCacheInterval, inflight, shut, newest,
      failedAt, unhandled, last, emitted, scenario>>

instVars ==
    <<pc, cfgName, cfgTtl, cfgLog, map, isOutdated, count, lastLoadTimestamp,
      isForcedReload, checkCacheInterval, inflight, shut, newest, failedAt>>

\* history: whether the two instances of a twin run have been handed the same
\* calls so far ("sync"), the first is one call ahead ("half"), or not ("off")
TwinAfter(op, i, origin, err, data) ==
    IF last.twin = "sync"
    THEN IF i = NoInst THEN "sync" ELSE IF i = 1 THEN "half" ELSE "off"
    ELSE IF /\ last.twin = "half"
            /\ i = 2 /\ last.i = 1
            /\ op = last.op /\ origin = last.origin /\ err = last.err /\ data = last.data
         THEN "sync"
         ELSE "off"

Step(op, i, origin, started, err, data) ==
    [op |-> op, i |-> i, origin |-> origin, started |-> started, err |-> err,
     data |-> data, twin |-> TwinAfter(op, i, origin, err, data)]

InitState ==
    /\ now = StartTime
    /\ caches = [n \in NameInputs |-> NoInst]
    /\ pc = [i \in Insts |-> "free"]
    /\ cfgName = [i \in Insts |-> UndefinedValue]
    /\ cfgTtl = [i \in Insts |-> 0]
    /\ cfgLog = [i \in Insts |-> "undefined"]
    /\ map = [i \in Insts |-> EmptyMap]
    /\ isOutdated = [i \in Insts |-> FALSE]
    /\ count = [i \in Insts |-> 0]
    /\ lastLoadTimestamp = [i \in Insts |-> NoTimestamp]
    /\ isForcedReload = [i \in Insts |-> FALSE]
    /\ checkCacheInterval = [i \in Insts |-> NoTimer]
    /\ inflight = [i \in Insts |-> {}]
    /\ shut = [i \in Insts |-> FALSE]
    /\ newest = [i \in Insts |-> "none"]
    /\ failedAt = [i \in Insts |-> NoTimestamp]
    /\ unhandled = FALSE
    /\ last = [op |-> "start", i |-> NoInst, origin |-> "none", started |-> FALSE,
               err |-> NoError, data |-> EmptyMap,
               twin |-> IF scenario.twin THEN "sync" ELSE "off"]
    /\ emitted = <<>>

Init == scenario \in Scenarios /\ InitState

(***************************************************************************)
(* Reads of an instance handle and of the registry: they change nothing.   *)
(***************************************************************************)
ERR_CACHE_OUT_OF_DATE == "ERR_CACHE_OUT_OF_DATE"

\* get without the isOutdated check
getNoOutdatedCheck(i, key) ==
    [threw |-> FALSE, code |-> NoError, value |-> MapGet(map[i], key)]

\* cache.get(key): throws when the data is outdated
get(i, key) ==
    IF isOutdated[i]
    THEN [threw |-> TRUE, code |-> ERR_CACHE_OUT_OF_DATE, value |-> undefined]
    ELSE [threw |-> FALSE, code |-> NoError, value |-> MapGet(map[i], key)]

\* cache.getUnsafe(key)
getUnsafe(i, key) == [value |-> MapGet(map[i], key), isOutdated |-> isOutdated[i]]

\* cache.getMapCopy()
getMapCopy(i) == [k \in DOMAIN map[i] |-> map[i][k]]

\* the events cache.get(key) emits
getEmits(i, key) ==
    IF isOutdated[i]
    THEN <<>>
    ELSE Emit(cfgLog[i], <<Event("cache:log:get", <<cfgName[i], key, MapGet(map[i], key)>>)>>)

\* the events cache.getUnsafe(key) emits
getUnsafeEmits(i, key) ==
    Emit(cfgLog[i],
         (IF isOutdated[i]
          THEN <<Event("cache:log:warn", <<cfgName[i], "cache is outdated.">>)>>
          ELSE <<>>)
         \o <<Event("cache:log:getUnsafe", <<cfgName[i], key, MapGet(map[i], key)>>)>>)

\* Caches.get(name)
RegistryGet(nm) ==
    IF validateName(nm)
    THEN [threw |-> FALSE, cache |-> caches[nm]]
    ELSE [threw |-> TRUE, cache |-> NoInst]

(***************************************************************************)
(* load(): the decision, and its synchronous part up to the loader call.   *)
(***************************************************************************)
\* the operands of the subtraction swapped
isExpiredSwapped(ts, ttl) == ts # NoTimestamp /\ ts - now > ttl

\* >= instead of >
isExpiredAtTtl(ts, ttl) == ts # NoTimestamp /\ now - ts >= ttl

\* Date.now() - undefined is NaN, and NaN > ttl is false
isExpired(ts, ttl) == ts # NoTimestamp /\ now - ts > ttl

\* !lastLoadTimestamp
NotLoadedYet(ts) == ts = NoTimestamp \/ ts = 0

ShouldLoad(forced, ts, ttl) == forced \/ NotLoadedYet(ts) \/ isExpired(ts, ttl)

\* count++ left out
CountKept(old) == old
\* count++, before the loader is called
CountAfterStart(old) == old + 1

\* the stamp left out
StampKept(old) == old
\* lastLoadTimestamp = Date.now(), before the loader is called
StampOnStart(old) == now

\* isForcedReload = false left out
ForcedKept(lg, old) == old
\* isForcedReload = false done only when there is an emitter
ForcedResetByEmitter(lg, old) == IF lg # "undefined" THEN FALSE ELSE old
\* isForcedReload = false, after the optional emit
ForcedAfterEmit(lg, old) == FALSE

RECURSIVE SumCount(_)
SumCount(S) == IF S = {} THEN 0 ELSE LET i == CHOOSE j \in S : TRUE IN count[i] + SumCount(S \ {i})
LoadsStarted == SumCount(Insts)

\* a call of the loader, with the count; the time at which load() made it is
\* history, kept in the runs that look at it
Invocation(n, origin) ==
    [n |-> n, origin |-> origin, at |-> IF scenario.hist THEN now ELSE NoTimestamp]

\* the emit placed after isForcedReload = false
LoadEventAfterReset(nm, i, forced, ttl) ==
    Event("cache:log:load",
          <<nm, count[i] + 1, FALSE, now, isExpired(lastLoadTimestamp[i], ttl)>>)
\* emit('cache:log:load', name, count, isForcedReload, lastLoadTimestamp, isExpired),
\* after count++ and the stamp, before isForcedReload = false
LoadEvent(nm, i, forced, ttl) ==
    Event("cache:log:load",
          <<nm, count[i] + 1, forced, now, isExpired(lastLoadTimestamp[i], ttl)>>)
InitStartEvent(nm) == Event("cache:log:init:start", <<nm>>)
\* runtime = Date.now() - startTime; startTime is read when the first load starts
InitEndEvent(i) == Event("cache:log:init:end", <<cfgName[i], now - lastLoadTimestamp[i]>>)
RefreshEvent(i) == Event("cache:log:refresh", <<cfgName[i], count[i], lastLoadTimestamp[i]>>)

\* count++, the stamp, isForcedReload = false, and the call of the loader; forced
\* is what isForcedReload is when load() is entered
LoadStart(i, origin, lg, forced) ==
    /\ LoadsStarted < scenario.loads
    /\ count' = [count EXCEPT ![i] = CountAfterStart(@)]
    /\ lastLoadTimestamp' =
           [lastLoadTimestamp EXCEPT ![i] = StampOnStart(lastLoadTimestamp[i])]
    /\ isForcedReload' = [isForcedReload EXCEPT ![i] = ForcedAfterEmit(lg, forced)]
    /\ inflight' = [inflight EXCEPT ![i] = @ \cup {Invocation(count[i] + 1, origin)}]
    /\ newest' = [newest EXCEPT ![i] = "pending"]

\* the condition is false: load() returns at once; forced is what isForcedReload is
LoadSkip(i, forced) ==
    /\ isForcedReload' = [isForcedReload EXCEPT ![i] = forced]
    /\ UNCHANGED <<count, lastLoadTimestamp, inflight, newest>>

(***************************************************************************)
(* What the continuation of load() writes once the loader has settled.     *)
(***************************************************************************)
\* the assignment to map left out
MapKept(old, data) == old
\* the loaded entries added to the map instead of replacing it
MapMerged(old, data) ==
    [k \in DOMAIN old \cup DOMAIN data |-> IF k \in DOMAIN data THEN data[k] ELSE old[k]]
\* map = await config.asyncLoadFunction()
MapAfterLoad(old, data) == data
OutdatedAfterLoad == FALSE
OutdatedAfterError == TRUE
\* [shutdown]() without isOutdated = true
OutdatedKeptAtShutdown(old) == old
\* [shutdown](): isOutdated = true
OutdatedAfterShutdown(old) == TRUE
\* the loader's error wrapped in a new one
RethrownWrapped(err) == "wrapped"
\* throw error: the loader's error is rethrown as it is
Rethrown(err) == err
\* init catching the error of the first load and going on
InitErrorSwallowed == "live"
\* await load() in init throws: init, and create, reject; nothing is returned
PcAfterInitError == "failed"
\* the interval callback, async () => await load(), attaches no handler
TimerCallbackHandles == FALSE

(***************************************************************************)
(* Caches.create(config), up to the await of the first load.               *)
(***************************************************************************)
\* init without the isInitialized check
CreateErrorNoInitCheck(nm, t, l) ==
    IF ~validateName(nm) THEN "name is required"
    ELSE IF ~validLoader(l) THEN "asyncLoadFunction is required"
    ELSE IF ~validTtl(t) THEN "ttl must be >= 1000ms"
    ELSE NoError

CreateError(nm, t, l) ==
    IF caches[nm] # NoInst THEN "already initialized"
    ELSE IF ~validateName(nm) THEN "name is required"
    ELSE IF ~validLoader(l) THEN "asyncLoadFunction is required"
    ELSE IF ~validTtl(t) THEN "ttl must be >= 1000ms"
    ELSE NoError

FreeInst == {i \in 1 .. scenario.inst : pc[i] = "free"}
NewInst == CHOOSE i \in FreeInst : \A j \in FreeInst : i <= j

CreateErrors ==
    {CreateError(nm, t, l) : nm \in NameInputs, t \in TtlInputs, l \in LoaderInputs}
        \ {NoError}

\* create with a configuration that makes init throw err
CreateThrows(err) ==
    /\ last' = Step("create", NoInst, "init", FALSE, err, EmptyMap)
    /\ emitted' = <<>>
    /\ UNCHANGED <<now, caches, instVars, unhandled, scenario>>

CreateStart(nm, t, l, lg) ==
    /\ lg \in scenario.log
    /\ CreateError(nm, t, l) = NoError
    /\ FreeInst # {}
    /\ LET i == NewInst IN
        /\ pc' = [pc EXCEPT ![i] = "init"]
        /\ cfgName' = [cfgName EXCEPT ![i] = nm]
        /\ cfgTtl' = [cfgTtl EXCEPT ![i] = t]
        /\ cfgLog' = [cfgLog EXCEPT ![i] = lg]
        /\ IF ShouldLoad(isForcedReload[i], lastLoadTimestamp[i], t)
           THEN /\ LoadStart(i, "init", lg, isForcedReload[i])
                /\ emitted' = Emit(lg, <<InitStartEvent(nm),
                                         LoadEvent(nm, i, isForcedReload[i], t)>>)
           ELSE /\ LoadSkip(i, isForcedReload[i])
                /\ emitted' = Emit(lg, <<InitStartEvent(nm)>>)
        /\ last' = Step("create", i, "init", TRUE, NoError, EmptyMap)
    /\ UNCHANGED <<now, caches, map, isOutdated, checkCacheInterval, shut, failedAt, unhandled,
                   scenario>>

(***************************************************************************)
(* The loader settles: the rest of load(), then of whoever awaited it.     *)
(***************************************************************************)
LoaderResolves(i, inv, data) ==
    /\ inv \in inflight[i]
    /\ inflight' = [inflight EXCEPT ![i] = @ \ {inv}]
    /\ map' = [map EXCEPT ![i] = MapAfterLoad(map[i], data)]
    /\ isOutdated' = [isOutdated EXCEPT ![i] = OutdatedAfterLoad]
    /\ IF inv.origin = "init"
       THEN \* init goes on: setInterval, return; create: caches.set(name, instance)
            /\ checkCacheInterval' =
                   [checkCacheInterval EXCEPT ![i] = now + checkTimeMs(cfgTtl[i])]
            /\ pc' = [pc EXCEPT ![i] = "live"]
            /\ caches' = [caches EXCEPT ![cfgName[i]] = i]
       ELSE UNCHANGED <<checkCacheInterval, pc, caches>>
    /\ newest' = [newest EXCEPT ![i] = IF inv.n = count[i] THEN "ok" ELSE @]
    /\ failedAt' = [failedAt EXCEPT ![i] = NoTimestamp]
    /\ last' = Step("resolve", i, inv.origin, FALSE, NoError, data)
    /\ emitted' = IF inv.origin = "init" THEN Emit(cfgLog[i], <<InitEndEvent(i)>>) ELSE <<>>
    /\ UNCHANGED <<now, cfgName, cfgTtl, cfgLog, count, lastLoadTimestamp, isForcedReload,
                   shut, unhandled, scenario>>

LoaderRejects(i, inv, err) ==
    /\ inv \in inflight[i]
    /\ inflight' = [inflight EXCEPT ![i] = @ \ {inv}]
    /\ isOutdated' = [isOutdated EXCEPT ![i] = OutdatedAfterError]
    /\ pc' = [pc EXCEPT ![i] = IF inv.origin = "init" THEN PcAfterInitError ELSE @]
    /\ unhandled' = (unhandled \/ (inv.origin = "timer" /\ ~TimerCallbackHandles))
    /\ newest' = [newest EXCEPT ![i] = IF inv.n = count[i] THEN "failed" ELSE @]
    /\ failedAt' = [failedAt EXCEPT ![i] = inv.at]
    /\ last' = Step("reject", i, inv.origin, FALSE, Rethrown(err), EmptyMap)
    /\ emitted' = <<>>
    /\ UNCHANGED <<now, caches, cfgName, cfgTtl, cfgLog, map, count, lastLoadTimestamp,
                   isForcedReload, checkCacheInterval, shut, scenario>>

(***************************************************************************)
(* The interval fires: async () => await load().                           *)
(***************************************************************************)
TimerDue(i) == checkCacheInterval[i] # NoTimer /\ checkCacheInterval[i] <= now

Tick(i) ==
    /\ TimerDue(i)
    /\ checkCacheInterval' =
           [checkCacheInterval EXCEPT ![i] = @ + checkTimeMs(cfgTtl[i])]
    /\ IF ShouldLoad(isForcedReload[i], lastLoadTimestamp[i], cfgTtl[i])
       THEN /\ LoadStart(i, "timer", cfgLog[i], isForcedReload[i])
            /\ emitted' = Emit(cfgLog[i],
                               <<LoadEvent(cfgName[i], i, isForcedReload[i], cfgTtl[i])>>)
            /\ last' = Step("tick", i, "timer", TRUE, NoError, EmptyMap)
       ELSE /\ LoadSkip(i, isForcedReload[i])
            /\ emitted' = <<>>
            /\ last' = Step("tick", i, "timer", FALSE, NoError, EmptyMap)
    /\ UNCHANGED <<now, caches, pc, cfgName, cfgTtl, cfgLog, map, isOutdated, shut, failedAt, unhandled,
                   scenario>>

(***************************************************************************)
(* cache.refresh(), up to the await of the loader.                         *)
(***************************************************************************)
Refresh(i) ==
    /\ pc[i] = "live"
    /\ IF ShouldLoad(TRUE, lastLoadTimestamp[i], cfgTtl[i])
       THEN /\ LoadStart(i, "refresh", cfgLog[i], TRUE)
            /\ emitted' = Emit(cfgLog[i], <<RefreshEvent(i),
                                            LoadEvent(cfgName[i], i, TRUE, cfgTtl[i])>>)
            /\ last' = Step("refresh", i, "refresh", TRUE, NoError, EmptyMap)
       ELSE /\ LoadSkip(i, TRUE)
            /\ emitted' = Emit(cfgLog[i], <<RefreshEvent(i)>>)
            /\ last' = Step("refresh", i, "refresh", FALSE, NoError, EmptyMap)
    /\ UNCHANGED <<now, caches, pc, cfgName, cfgTtl, cfgLog, map, isOutdated,
                   checkCacheInterval, shut, failedAt, unhandled, scenario>>

(***************************************************************************)
(* cache[shutdown](), Caches.destroy(name), Caches.destroyAll().           *)
(***************************************************************************)
\* [shutdown]() without clearInterval
IntervalKeptAtShutdown(old) == old
\* clearInterval(checkCacheInterval)
IntervalAfterShutdown(old) == NoTimer

ShutdownSet(S) ==
    /\ isOutdated' = [i \in Insts |-> IF i \in S THEN OutdatedAfterShutdown(isOutdated[i]) ELSE isOutdated[i]]
    /\ checkCacheInterval' =
           [i \in Insts |-> IF i \in S THEN IntervalAfterShutdown(checkCacheInterval[i])
                                       ELSE checkCacheInterval[i]]
    /\ shut' = [i \in Insts |-> shut[i] \/ i \in S]

\* destroy shutting down every registered instance
DestroyTargetsAll(nm) ==
    IF caches[nm] # NoInst THEN {caches[n] : n \in {m \in NameInputs : caches[m] # NoInst}}
    ELSE {}

\* caches.get(name), if there is one
DestroyTargets(nm) == IF caches[nm] # NoInst THEN {caches[nm]} ELSE {}

\* destroy without the if (cache) guard: undefined[shutdown] is a TypeError
DestroyErrorUnguarded(nm) ==
    IF ~validateName(nm) THEN "name is required"
    ELSE IF caches[nm] = NoInst THEN "TypeError"
    ELSE NoError

\* what destroy(name) throws
DestroyError(nm) == IF ~validateName(nm) THEN "name is required" ELSE NoError

Destroy(nm) ==
    /\ IF DestroyError(nm) # NoError
       THEN /\ last' = Step("destroy", NoInst, "none", FALSE, DestroyError(nm), EmptyMap)
            /\ UNCHANGED <<caches, isOutdated, checkCacheInterval, shut>>
       ELSE /\ ShutdownSet(DestroyTargets(nm))
            /\ caches' = [caches EXCEPT ![nm] = NoInst]
            /\ last' = Step("destroy", caches[nm], "none", FALSE, NoError, EmptyMap)
    /\ emitted' = <<>>
    /\ UNCHANGED <<now, pc, cfgName, cfgTtl, cfgLog, map, count, lastLoadTimestamp,
                   isForcedReload, inflight, newest, failedAt, unhandled, scenario>>

Registered == {n \in NameInputs : caches[n] # NoInst}

\* the loop leaving after its first round
DestroyAllFirstOnly ==
    IF Registered = {} THEN {} ELSE {caches[CHOOSE n \in Registered : TRUE]}

\* the instances the loop over caches.keys() shuts down
DestroyAllTargets == {caches[n] : n \in Registered}

DestroyAll ==
    /\ ShutdownSet(DestroyAllTargets)
    /\ caches' = [n \in NameInputs |-> NoInst]
    /\ last' = Step("destroyAll", NoInst, "none", FALSE, NoError, EmptyMap)
    /\ emitted' = <<>>
    /\ UNCHANGED <<now, pc, cfgName, cfgTtl, cfgLog, map, count, lastLoadTimestamp,
                   isForcedReload, inflight, newest, failedAt, unhandled, scenario>>

(***************************************************************************)
(* Time passes.  The interval fires on time: the clock does not move past  *)
(* a tick that is due.                                                     *)
(***************************************************************************)
AdvanceTime ==
    /\ now + TimeStep <= StartTime + scenario.clock * TimeStep
    /\ \A i \in Insts : ~TimerDue(i)
    /\ now' = now + TimeStep
    /\ last' = Step("time", NoInst, "none", FALSE, NoError, EmptyMap)
    /\ emitted' = <<>>
    /\ UNCHANGED <<caches, instVars, unhandled, scenario>>

Next ==
    \/ \E err \in CreateErrors : CreateThrows(err)
    \/ \E nm \in NameInputs, t \in TtlInputs, l \in LoaderInputs, lg \in LogEmitterInputs :
           CreateStart(nm, t, l, lg)
    \/ \E i \in Insts, d \in DataSets : \E inv \in inflight[i] : LoaderResolves(i, inv, d)
    \/ \E i \in Insts, e \in LoaderErrors : \E inv \in inflight[i] : LoaderRejects(i, inv, e)
    \/ \E i \in Insts : Tick(i)
    \/ \E i \in Insts : Refresh(i)
    \/ \E nm \in NameInputs : Destroy(nm)
    \/ DestroyAll
    \/ AdvanceTime

Spec == Init /\ [][Next]_vars

(***************************************************************************)
(* An instance that is created and then left to its timer: no refresh(),   *)
(* no destroy.                                                             *)
(***************************************************************************)
InitTimer == scenario = TimerScenario /\ InitState

NextTimer ==
    \/ \E nm \in NameInputs, t \in TtlInputs, l \in LoaderInputs, lg \in LogEmitterInputs :
           CreateStart(nm, t, l, lg)
    \/ \E i \in Insts, d \in DataSets : \E inv \in inflight[i] : LoaderResolves(i, inv, d)
    \/ \E i \in Insts, e \in LoaderErrors : \E inv \in inflight[i] : LoaderRejects(i, inv, e)
    \/ \E i \in Insts : Tick(i)
    \/ AdvanceTime

SpecTimer == InitTimer /\ [][NextTimer]_vars

(***************************************************************************)
(* An instance that is created, refreshed and never shut down.             *)
(***************************************************************************)
InitRecover == scenario = RecoverScenario /\ InitState

NextRecover ==
    \/ \E nm \in NameInputs, t \in TtlInputs, l \in LoaderInputs, lg \in LogEmitterInputs :
           CreateStart(nm, t, l, lg)
    \/ \E i \in Insts, d \in DataSets : \E inv \in inflight[i] : LoaderResolves(i, inv, d)
    \/ \E i \in Insts, e \in LoaderErrors : \E inv \in inflight[i] : LoaderRejects(i, inv, e)
    \/ \E i \in Insts : Tick(i)
    \/ \E i \in Insts : Refresh(i)
    \/ AdvanceTime

SpecRecover == InitRecover /\ [][NextRecover]_vars

(***************************************************************************)
(* Two instances handed the same calls, ticks and loader outcomes in turn, *)
(* the first created with an emitter and the second without, each under a  *)
(* name of its own.                                                        *)
(***************************************************************************)
InitTwin == scenario = TwinScenario /\ InitState

TwinStep ==
    /\ last'.twin # "off"
    /\ \A i \in Insts : pc'[i] # "free" => (cfgLog'[i] # "undefined" <=> i = 1)
    /\ (pc'[1] # "free" /\ pc'[2] # "free") => cfgName'[1] # cfgName'[2]

NextTwin ==
    \/ (\E err \in CreateErrors : CreateThrows(err)) /\ TwinStep
    \/ (\E nm \in NameInputs, t \in TtlInputs, l \in LoaderInputs,
           lg \in LogEmitterInputs : CreateStart(nm, t, l, lg)) /\ TwinStep
    \/ (\E i \in Insts, d \in DataSets : \E inv \in inflight[i] :
           LoaderResolves(i, inv, d)) /\ TwinStep
    \/ (\E i \in Insts, e \in LoaderErrors : \E inv \in inflight[i] :
           LoaderRejects(i, inv, e)) /\ TwinStep
    \/ (\E i \in Insts : Tick(i)) /\ TwinStep
    \/ (\E i \in Insts : Refresh(i)) /\ TwinStep
    \/ (\E nm \in NameInputs : Destroy(nm)) /\ TwinStep
    \/ DestroyAll /\ TwinStep
    \/ AdvanceTime /\ TwinStep

SpecTwin == InitTwin /\ [][NextTwin]_vars

(***************************************************************************)
(* Properties.                                                             *)
(***************************************************************************)
Live(i) == pc[i] = "live"

\* C1: at most one loader invocation of an instance is in flight at any time.
C1_AtMostOneLoadInFlight == \A i \in Insts : Cardinality(inflight[i]) <= 1

\* C2: a loader failure in a load started by the timer never becomes an unhandled
\* rejection: it changes nothing but isOutdated.
C2_TimerFailureIsCaught == ~unhandled

\* C3: once an instance is shut down, in every later state get(key) throws and
\* getUnsafe(key) returns the value the map had, with isOutdated = true.
C3_FrozenAfterShutdown ==
    [][\A i \in Insts : shut[i] =>
          \A k \in KeyInputs :
              /\ get(i, k)'.threw
              /\ getUnsafe(i, k)' = [value |-> MapGet(map[i], k), isOutdated |-> TRUE]]_vars

\* C4: no loader invocation is started on an instance that has been shut down.
C4_NoLoadAfterShutdown ==
    [][\A i \in Insts : shut[i] => count'[i] = count[i] /\ inflight'[i] \subseteq inflight[i]]_vars

\* C5: right after destroy(name) of a registered cache with no load in flight,
\* Caches.get(name) is undefined, get(key) on the handle throws
\* ERR_CACHE_OUT_OF_DATE and getUnsafe(key) returns the last value, outdated.
C5_AfterDestroy ==
    [][\A i \in Insts, nm \in NameInputs :
          (Destroy(nm) /\ caches[nm] = i /\ inflight[i] = {}) =>
              /\ RegistryGet(nm)' = [threw |-> FALSE, cache |-> NoInst]
              /\ \A k \in KeyInputs :
                     /\ get(i, k)'.threw
                     /\ get(i, k)'.code = ERR_CACHE_OUT_OF_DATE
                     /\ getUnsafe(i, k)' =
                            [value |-> MapGet(map[i], k), isOutdated |-> TRUE]]_vars

\* C5 witness: a registered, loaded cache with nothing in flight was destroyed.
C5_Witness ==
    /\ last.op = "destroy"
    /\ last.i # NoInst
    /\ inflight[last.i] = {}
    /\ map[last.i] # EmptyMap
    /\ shut[last.i]

\* C6: when the loader fails during refresh(), refresh() rejects with the loader's
\* error itself, isOutdated becomes true and the map is left as it was.
C6_RefreshFailure ==
    [][\A i \in Insts, e \in LoaderErrors : \A inv \in inflight[i] :
          (LoaderRejects(i, inv, e) /\ inv.origin = "refresh") =>
              /\ last'.err = e
              /\ isOutdated'[i]
              /\ map'[i] = map[i]
              /\ \A k \in KeyInputs :
                     /\ get(i, k)'.threw
                     /\ get(i, k)'.code = ERR_CACHE_OUT_OF_DATE
                     /\ getUnsafe(i, k)' =
                            [value |-> MapGet(map[i], k), isOutdated |-> TRUE]]_vars

\* C6 witness: the loader of a refresh() of a fresh, loaded cache has failed.
C6_Witness ==
    /\ last.op = "reject"
    /\ last.origin = "refresh"
    /\ last.err \in LoaderErrors
    /\ map[last.i] # EmptyMap
    /\ isOutdated[last.i]
    /\ ~shut[last.i]

\* C7 (as claimed): a live instance that is not shut down starts a reload no later
\* than ttl + checkTimeMs after the start of its previous load attempt.
C7_ReloadWithinTtlPlusCheck ==
    \A i \in Insts :
        (Live(i) /\ ~shut[i]) =>
            now - lastLoadTimestamp[i] <= cfgTtl[i] + checkTimeMs(cfgTtl[i])

\* the interval was set when more than ttl had passed since the start of the
\* first load, and has not fired yet
ArmedAfterExpiry(i) ==
    /\ count[i] = 1
    /\ checkCacheInterval[i] - checkTimeMs(cfgTtl[i]) - lastLoadTimestamp[i] > cfgTtl[i]
    /\ now <= checkCacheInterval[i]

\* C7 (amended): the first tick of an instance not shut down at which
\* now - lastLoadTimestamp > ttl starts a reload; so a reload starts no later than
\* ttl + checkTimeMs after the start of the previous attempt, unless that attempt is
\* the first load and took longer than ttl: then it starts at the first tick of the
\* interval; and when the loader of that reload succeeds, get(key) returns the
\* values of the new data set.
C7_ExpiredTickReloads ==
    /\ [][\A i \in Insts :
            (Tick(i) /\ ~shut[i] /\ now - lastLoadTimestamp[i] > cfgTtl[i]) =>
                /\ last'.started
                /\ count'[i] = count[i] + 1
                /\ lastLoadTimestamp'[i] = now
                /\ Invocation(count'[i], "timer") \in inflight'[i]]_vars
    /\ [](\A i \in Insts :
            (Live(i) /\ ~shut[i]) =>
                \/ now - lastLoadTimestamp[i] <= cfgTtl[i] + checkTimeMs(cfgTtl[i])
                \/ ArmedAfterExpiry(i))
    /\ [][\A i \in Insts, d \in DataSets : \A inv \in inflight[i] :
            (LoaderResolves(i, inv, d) /\ inv.origin = "timer" /\ ~shut[i]) =>
                \A k \in KeyInputs :
                    get(i, k)' = [threw |-> FALSE, code |-> NoError, value |-> MapGet(d, k)]]_vars

\* C7 witness: a reload started by the timer exactly ttl + checkTimeMs after the
\* first load has succeeded and its data set is read.
C7_Witness ==
    /\ last.op = "resolve"
    /\ last.origin = "timer"
    /\ ~shut[last.i]
    /\ lastLoadTimestamp[last.i] = StartTime + cfgTtl[last.i] + checkTimeMs(cfgTtl[last.i])
    /\ \A k \in KeyInputs : get(last.i, k).value = MapGet(last.data, k)

\* C8: after create of a valid configuration resolves, Caches.get(name) is an
\* instance that is not outdated and whose get(key) is, for every key, the value
\* of the key in the data set of the loader's first invocation.
C8_CreateThenGet ==
    (last.op = "resolve" /\ last.origin = "init") =>
        /\ Live(last.i)
        /\ RegistryGet(cfgName[last.i]) = [threw |-> FALSE, cache |-> last.i]
        /\ ~isOutdated[last.i]
        /\ \A k \in KeyInputs :
               get(last.i, k) =
                   [threw |-> FALSE, code |-> NoError, value |-> MapGet(last.data, k)]

\* C8 witness: a create has resolved, and a key of the data set and a key that is
\* not in it are read.
C8_Witness ==
    /\ last.op = "resolve"
    /\ last.origin = "init"
    /\ count[last.i] = 1
    /\ get(last.i, "k1").value = "v1"
    /\ get(last.i, "null").value = undefined

\* C9: refresh() starts a loader invocation whether or not the ttl has elapsed;
\* when it resolves with no other load in flight, the map is exactly the data set
\* it returned and isOutdated is false.
C9_RefreshReloads ==
    /\ last.op = "refresh" =>
           /\ last.started
           /\ Invocation(count[last.i], "refresh") \in inflight[last.i]
    /\ (last.op = "resolve" /\ last.origin = "refresh" /\ inflight[last.i] = {}) =>
           /\ map[last.i] = last.data
           /\ ~isOutdated[last.i]

\* C9 witness: a refresh() made before the ttl had elapsed has resolved with a
\* data set that has none of the keys of the one before.
C9_Witness ==
    /\ last.op = "resolve"
    /\ last.origin = "refresh"
    /\ inflight[last.i] = {}
    /\ count[last.i] = 2
    /\ now - lastLoadTimestamp[last.i] <= cfgTtl[last.i]
    /\ last.data = [k \in {"k3"} |-> "v3"]
    /\ get(last.i, "k1").value = undefined

\* C10: for an instance not shut down with no load in flight, isOutdated is true
\* if and only if the load attempt started last has failed.
C10_OutdatedIffNewestFailed ==
    \A i \in Insts :
        (Live(i) /\ ~shut[i] /\ inflight[i] = {}) =>
            (isOutdated[i] <=> newest[i] = "failed")

\* what a step that throws before anything is awaited leaves alone
NothingChanged == UNCHANGED <<now, caches, instVars, unhandled>>

\* C11: if the loader fails during the first load, create rejects with the
\* loader's error, the registry is left as it was, the instance is never
\* registered, no interval is set and its loader is never called again.
C11_InitialLoadFailure ==
    /\ [][\A i \in Insts, e \in LoaderErrors : \A inv \in inflight[i] :
            (LoaderRejects(i, inv, e) /\ inv.origin = "init") =>
                /\ last'.err = e
                /\ caches' = caches
                /\ pc'[i] = "failed"
                /\ checkCacheInterval'[i] = NoTimer]_vars
    /\ [](\A i \in Insts :
            pc[i] = "failed" =>
                /\ count[i] = 1
                /\ inflight[i] = {}
                /\ checkCacheInterval[i] = NoTimer
                /\ \A nm \in NameInputs : caches[nm] # i)

\* C11 witness: the first load of a create has failed and time has passed.
C11_Witness ==
    /\ pc[1] = "failed"
    /\ isOutdated[1]
    /\ caches[cfgName[1]] = NoInst
    /\ now > lastLoadTimestamp[1] + cfgTtl[1]

EmptyName == Str(<<>>)
BlankName == Str(<<" ">>)
InvalidNames == {EmptyName, BlankName, UndefinedValue, NumberValue}

\* C12: create throws the name error for an empty, blank, missing or non-string
\* name, the ttl error for ttl < 1000 (1000 is accepted) and the loader error
\* for a missing or non-async loader; a create that throws starts no load, sets
\* no interval and leaves the registry as it is.
C12_CreateValidation ==
    /\ [](/\ \A nm \in InvalidNames, t \in TtlInputs, l \in LoaderInputs :
                CreateError(nm, t, l) = "name is required"
          /\ \A nm \in NameInputs \ InvalidNames :
                caches[nm] = NoInst =>
                    /\ CreateError(nm, MinTtl - 1, "AsyncFunction") = "ttl must be >= 1000ms"
                    /\ CreateError(nm, MinTtl, "AsyncFunction") = NoError
                    /\ \A l \in {"Function", "undefined"} :
                           CreateError(nm, MinTtl, l) = "asyncLoadFunction is required")
    /\ [][(last'.op = "create" /\ last'.err # NoError) => NothingChanged]_vars

\* C12 witness: a create with ttl 999 has thrown.
C12_Witness ==
    /\ last.op = "create"
    /\ last.err = "ttl must be >= 1000ms"
    /\ last.i = NoInst
    /\ ~last.started

\* C13: create with a name that is registered throws whatever the rest of the
\* configuration is, calls no loader and leaves the registered instance as it is.
C13_CreateRegisteredName ==
    /\ [](\A nm \in NameInputs, t \in TtlInputs, l \in LoaderInputs :
            caches[nm] # NoInst => CreateError(nm, t, l) = "already initialized")
    /\ [][(last'.op = "create" /\ last'.err = "already initialized") =>
             NothingChanged]_vars
    /\ [][\A nm \in NameInputs, t \in TtlInputs, l \in LoaderInputs,
             lg \in LogEmitterInputs :
            CreateStart(nm, t, l, lg) => caches[nm] = NoInst]_vars

\* C13 witness: a create under the name of a live, registered cache has thrown.
C13_Witness ==
    /\ last.op = "create"
    /\ last.err = "already initialized"
    /\ \E i \in Insts : Live(i) /\ caches[cfgName[i]] = i /\ ~isOutdated[i]

\* C14: every instance whose interval is set is the instance registered under
\* its name, also when two creates of one name overlap.
C14_ArmedIsRegistered ==
    \A i \in Insts : checkCacheInterval[i] # NoTimer => caches[cfgName[i]] = i

\* an instance create has returned that is no longer registered under its name
Unregistered(i) == Live(i) /\ caches[cfgName[i]] # i

\* C15: every instance that was registered and no longer is, is outdated:
\* get(key) throws and getUnsafe(key) reports isOutdated = true on its handle.
C15_UnregisteredIsOutdated ==
    \A i \in Insts : Unregistered(i) =>
        \A k \in KeyInputs : get(i, k).threw /\ getUnsafe(i, k).isOutdated

\* C16: destroyAll never throws; after it every instance that was registered is
\* shut down (interval cleared, isOutdated true), the registry is empty, and
\* create is accepted again under every valid name.
C16_DestroyAll ==
    /\ [](ENABLED DestroyAll)
    /\ [][DestroyAll =>
            /\ last'.err = NoError
            /\ \A nm \in NameInputs :
                   /\ caches'[nm] = NoInst
                   /\ caches[nm] # NoInst =>
                          /\ isOutdated'[caches[nm]]
                          /\ checkCacheInterval'[caches[nm]] = NoTimer
                          /\ shut'[caches[nm]]
            /\ \A nm \in NameInputs \ InvalidNames :
                   /\ RegistryGet(nm)' = [threw |-> FALSE, cache |-> NoInst]
                   /\ CreateError(nm, MinTtl, "AsyncFunction")' = NoError]_vars

\* C16 witness: destroyAll has shut down two registered caches at once.
C16_Witness ==
    /\ last.op = "destroyAll"
    /\ \A i \in Insts : Live(i) /\ shut[i] /\ isOutdated[i] /\ map[i] # EmptyMap
    /\ cfgName[1] # cfgName[2]

\* C17: destroy of a valid name that is not registered, and destroyAll of an
\* empty registry, throw nothing and change nothing: a second destroy(name) or
\* destroyAll() leaves what the first one left.
C17_DestroyIdempotent ==
    /\ [][\A nm \in NameInputs \ InvalidNames :
            (Destroy(nm) /\ caches[nm] = NoInst) =>
                (last'.err = NoError /\ NothingChanged)]_vars
    /\ [][(DestroyAll /\ Registered = {}) =>
            (last'.err = NoError /\ NothingChanged)]_vars
    /\ [][\A nm \in NameInputs : Destroy(nm) => caches'[nm] = NoInst]_vars
    /\ [][DestroyAll => Registered' = {}]_vars

\* C17 witness: destroy was called for the name of a cache already destroyed.
C17_Witness ==
    /\ last.op = "destroy"
    /\ last.i = NoInst
    /\ last.err = NoError
    /\ \E i \in Insts : Live(i) /\ shut[i] /\ caches[cfgName[i]] = NoInst

\* C18: Caches.get(name) and destroy(name) throw for a missing, empty, blank or
\* non-string name, and such a destroy changes nothing; Caches.get of a valid
\* name that is not registered returns undefined.
C18_NameValidation ==
    /\ [](/\ \A nm \in InvalidNames :
                RegistryGet(nm).threw /\ DestroyError(nm) = "name is required"
          /\ \A nm \in NameInputs \ InvalidNames :
                /\ DestroyError(nm) = NoError
                /\ caches[nm] = NoInst =>
                       RegistryGet(nm) = [threw |-> FALSE, cache |-> NoInst])
    /\ [][\A nm \in InvalidNames :
            Destroy(nm) => (last'.err = "name is required" /\ NothingChanged)]_vars

\* C18 witness: destroy with an invalid name has thrown while a cache is live.
C18_Witness ==
    /\ last.op = "destroy"
    /\ last.err = "name is required"
    /\ \E i \in Insts : Live(i) /\ caches[cfgName[i]] = i /\ ~isOutdated[i]

\* C19: for every handle and key, get(key) throws ERR_CACHE_OUT_OF_DATE if and
\* only if isOutdated, otherwise it returns getUnsafe(key).value; the isOutdated
\* of getUnsafe(key) is the flag.
C19_GetAndGetUnsafe ==
    \A i \in Insts : Live(i) =>
        \A k \in KeyInputs :
            /\ get(i, k).threw <=> isOutdated[i]
            /\ get(i, k).threw => get(i, k).code = ERR_CACHE_OUT_OF_DATE
            /\ ~get(i, k).threw => get(i, k).value = getUnsafe(i, k).value
            /\ getUnsafe(i, k).isOutdated = isOutdated[i]
            /\ getUnsafe(i, k).value = MapGet(getMapCopy(i), k)

\* C19 witness: an outdated and a fresh handle, both with loaded data.
C19_Witness ==
    /\ Live(1) /\ isOutdated[1] /\ map[1] # EmptyMap
    /\ Live(2) /\ ~isOutdated[2] /\ map[2] # EmptyMap

\* C20: the start of a load changes neither the map nor isOutdated, and while a
\* load stays in flight the reads return the values of the map installed before
\* it started.
C20_ReadsDuringLoad ==
    [][\A i \in Insts :
          /\ count'[i] > count[i] => (map'[i] = map[i] /\ isOutdated'[i] = isOutdated[i])
          /\ \A inv \in inflight[i] :
                 inv \in inflight'[i] =>
                     \A k \in KeyInputs :
                         /\ getUnsafe(i, k)'.value = getUnsafe(i, k).value
                         /\ getMapCopy(i)' = getMapCopy(i)]_vars

\* what a caller and the clock can see of an instance, the emitter apart
Observable(i) ==
    [pc |-> pc[i], map |-> map[i], isOutdated |-> isOutdated[i], count |-> count[i],
     lastLoadTimestamp |-> lastLoadTimestamp[i], isForcedReload |-> isForcedReload[i],
     checkCacheInterval |-> checkCacheInterval[i], inflight |-> inflight[i],
     get |-> [k \in KeyInputs |-> get(i, k)],
     getUnsafe |-> [k \in KeyInputs |-> getUnsafe(i, k)],
     getMapCopy |-> getMapCopy(i)]

\* C21: an instance created with an emitter and one created without, handed the
\* same calls, ticks and loader outcomes, are in the same state after each of
\* them, and each call starts or skips a load and throws for both alike; the one
\* without an emitter emits nothing.
C21_EmitterOnlyObserves ==
    /\ [](last.twin = "sync" => Observable(1) = Observable(2))
    /\ [][(last.twin = "half" /\ last'.twin = "sync") =>
            (last'.started = last.started /\ last'.err = last.err)]_vars
    /\ []((last.i # NoInst /\ cfgLog[last.i] = "undefined") => emitted = <<>>)

\* C21 witness: both instances have been created, refreshed, and the loader of
\* the refresh has failed for both; only the first has an emitter.
C21_Witness ==
    /\ last.twin = "sync"
    /\ last.op = "reject"
    /\ last.origin = "refresh"
    /\ cfgLog[1] = "EventEmitter" /\ cfgLog[2] = "undefined"
    /\ \A i \in Insts : Live(i) /\ count[i] = 2 /\ isOutdated[i] /\ map[i] # EmptyMap

\* the instance has an emitter
HasEmitter(i) == cfgLog[i] # "undefined"

\* C22: with an emitter, create emits init:start and then load with count 1,
\* not forced, not expired, and init:end when the first load has succeeded;
\* refresh() emits refresh with the count before the call and then load with
\* that count + 1, forced, and expired exactly when more than ttl has passed
\* since the start of the load before; get(key) of an instance that is not
\* outdated emits get with the key and the value it returns.
C22_EventOrder ==
    /\ [][\A nm \in NameInputs, t \in TtlInputs, l \in LoaderInputs :
            CreateStart(nm, t, l, "EventEmitter") =>
                /\ Len(emitted') = 2
                /\ emitted'[1] = Event("cache:log:init:start", <<nm>>)
                /\ emitted'[2] = Event("cache:log:load", <<nm, 1, FALSE, now, FALSE>>)]_vars
    /\ [][\A i \in Insts :
            (last'.op = "resolve" /\ last'.origin = "init" /\ last'.i = i /\ HasEmitter(i)) =>
                /\ Len(emitted') = 1
                /\ emitted'[1].ev = "cache:log:init:end"
                /\ emitted'[1].args[1] = cfgName[i]]_vars
    /\ [][\A i \in Insts :
            (Refresh(i) /\ HasEmitter(i)) =>
                /\ Len(emitted') = 2
                /\ emitted'[1] =
                       Event("cache:log:refresh", <<cfgName[i], count[i], lastLoadTimestamp[i]>>)
                /\ emitted'[2] =
                       Event("cache:log:load",
                             <<cfgName[i], count[i] + 1, TRUE, now,
                               now - lastLoadTimestamp[i] > cfgTtl[i]>>)]_vars
    /\ [](\A i \in Insts : (Live(i) /\ HasEmitter(i) /\ ~isOutdated[i]) =>
            \A k \in KeyInputs :
                getEmits(i, k) = <<Event("cache:log:get", <<cfgName[i], k, get(i, k).value>>)>>)

\* C22 witness: a refresh() made when more than ttl had passed since the first
\* load has emitted refresh and then load, forced and expired.
C22_Witness ==
    /\ last.op = "refresh"
    /\ Len(emitted) = 2
    /\ emitted[1].ev = "cache:log:refresh"
    /\ emitted[1].args[2] = 1
    /\ emitted[2].ev = "cache:log:load"
    /\ emitted[2].args[2] = 2
    /\ emitted[2].args[3]
    /\ emitted[2].args[5]

\* the fields, the timer and the registration of an instance
Owned(j) ==
    <<map[j], isOutdated[j], count[j], lastLoadTimestamp[j], isForcedReload[j],
      checkCacheInterval[j], inflight[j], caches[cfgName[j]] = j>>

\* C23: a load that succeeds or fails, a tick, a refresh() or a destroy of one
\* cache leaves the map, isOutdated, count, lastLoadTimestamp, the interval and
\* the registration of every cache of another name as they were.
C23_Isolation ==
    [][\A i \in Insts, j \in Insts :
          (/\ last'.op \in {"resolve", "reject", "tick", "refresh", "destroy"}
           /\ last'.i = i
           /\ j # i
           /\ pc[j] # "free"
           /\ cfgName[j] # cfgName[i]) => Owned(j)' = Owned(j)]_vars

\* C23 witness: the loader of a refresh() of one cache has failed while a cache
\* of another name is registered and not outdated.
C23_Witness ==
    /\ last.op = "reject"
    /\ last.origin = "refresh"
    /\ isOutdated[last.i]
    /\ \E j \in Insts :
           /\ j # last.i /\ Live(j) /\ cfgName[j] # cfgName[last.i]
           /\ caches[cfgName[j]] = j /\ ~isOutdated[j] /\ map[j] # EmptyMap
           /\ checkCacheInterval[j] # NoTimer

\* C24: with the timer as the only trigger, a tick that finds a loader
\* invocation of its instance still in flight starts no other one.
C24_TickSkipsWhileLoading ==
    [][\A i \in Insts :
          (Tick(i) /\ inflight[i] # {}) =>
              (~last'.started /\ count'[i] = count[i] /\ inflight'[i] = inflight[i])]_vars

\* C25: a tick of an interval at which isForcedReload is false and
\* now - lastLoadTimestamp <= ttl calls no loader, emits nothing and leaves count,
\* lastLoadTimestamp, the map and isOutdated as they are.
C25_TickWithinTtlIsNoOp ==
    [][\A i \in Insts :
          (/\ Tick(i)
           /\ ~isForcedReload[i]
           /\ lastLoadTimestamp[i] # NoTimestamp
           /\ now - lastLoadTimestamp[i] <= cfgTtl[i]) =>
              /\ ~last'.started
              /\ emitted' = <<>>
              /\ inflight'[i] = inflight[i]
              /\ count'[i] = count[i]
              /\ lastLoadTimestamp'[i] = lastLoadTimestamp[i]
              /\ map'[i] = map[i]
              /\ isOutdated'[i] = isOutdated[i]]_vars

\* C25 witness: the interval has fired exactly ttl after the start of the last
\* load and no load was started.
C25_Witness ==
    /\ last.op = "tick"
    /\ ~last.started
    /\ now - lastLoadTimestamp[last.i] = cfgTtl[last.i]
    /\ count[last.i] = 1
    /\ inflight[last.i] = {}

\* C26: lastLoadTimestamp is written with the time at which a load is started,
\* in the step that calls the loader; no other step, the completion or failure
\* of a load included, changes it; it never decreases.
C26_StampIsStartOfNewestLoad ==
    /\ [][\A i \in Insts :
            count'[i] > count[i] =>
                /\ lastLoadTimestamp'[i] = now
                /\ Cardinality(inflight'[i]) = Cardinality(inflight[i]) + 1]_vars
    /\ [][\A i \in Insts :
            count'[i] = count[i] => lastLoadTimestamp'[i] = lastLoadTimestamp[i]]_vars
    /\ [][\A i \in Insts : lastLoadTimestamp'[i] >= lastLoadTimestamp[i]]_vars

\* C26 witness: a second load has failed some time after it was started and
\* the timestamp is still the time of its start.
C26_Witness ==
    /\ last.op = "reject"
    /\ count[last.i] = 2
    /\ inflight[last.i] = {}
    /\ lastLoadTimestamp[last.i] > StartTime
    /\ now > lastLoadTimestamp[last.i]

\* C27: once the load attempt started last has succeeded, the completion of a
\* load started before it leaves the map as it is.
C27_NewestSuccessStays ==
    [][\A i \in Insts :
          (newest[i] = "ok" /\ count'[i] = count[i] /\ inflight'[i] = {}) =>
              map'[i] = map[i]]_vars

\* C28: while an instance that is not shut down is outdated because a load has
\* failed, and no load is in flight, a tick of its interval starts a load if and
\* only if more than ttl has passed since the start of the attempt that failed;
\* when the loader of that load succeeds, isOutdated is false and get(key)
\* returns the values of the new data set.
C28_RecoversAfterTtl ==
    /\ [][\A i \in Insts :
            (/\ Tick(i)
             /\ ~shut[i] /\ isOutdated[i]
             /\ failedAt[i] # NoTimestamp
             /\ inflight[i] = {}) =>
                (last'.started <=> now - failedAt[i] > cfgTtl[i])]_vars
    /\ [][\A i \in Insts :
            (/\ last'.op = "resolve" /\ last'.origin = "timer" /\ last'.i = i
             /\ ~shut[i] /\ isOutdated[i]) =>
                /\ ~isOutdated'[i]
                /\ \A k \in KeyInputs :
                       get(i, k)' =
                           [threw |-> FALSE, code |-> NoError,
                            value |-> MapGet(last'.data, k)]]_vars

\* C29: the interval of an instance is set if and only if its create has
\* succeeded and it has not been shut down; it is set once, when the first load
\* has succeeded, and after shutdown it is never set again and never fires.
C29_TimerArmedIffLive ==
    /\ [](\A i \in Insts : checkCacheInterval[i] # NoTimer <=> (Live(i) /\ ~shut[i]))
    /\ [][\A i \in Insts :
            (checkCacheInterval[i] = NoTimer /\ checkCacheInterval'[i] # NoTimer) =>
                /\ last'.op = "resolve" /\ last'.origin = "init" /\ last'.i = i
                /\ count[i] = 1 /\ pc[i] = "init"]_vars
    /\ [][\A i \in Insts : shut[i] => (~Tick(i) /\ checkCacheInterval'[i] = NoTimer)]_vars

\* C29 witness: time has passed since an instance whose interval was set has
\* been shut down, while another instance's interval is set.
C29_Witness ==
    /\ last.op = "time"
    /\ \E i \in Insts : Live(i) /\ shut[i] /\ checkCacheInterval[i] = NoTimer
    /\ \E j \in Insts : Live(j) /\ ~shut[j] /\ checkCacheInterval[j] # NoTimer

\* C30: isForcedReload is false in every state between two steps: the load
\* that refresh() starts resets it; a load started by a tick is emitted as not
\* forced; every refresh() call starts exactly one loader invocation.
C30_ForcedFlagConsumed ==
    /\ [](\A i \in Insts : ~isForcedReload[i])
    /\ [][\A i \in Insts :
            (Tick(i) /\ last'.started /\ HasEmitter(i)) =>
                /\ Len(emitted') = 1
                /\ emitted'[1].ev = "cache:log:load"
                /\ emitted'[1].args[3] = FALSE]_vars
    /\ [][\A i \in Insts :
            Refresh(i) =>
                /\ last'.started
                /\ count'[i] = count[i] + 1
                /\ inflight'[i] = inflight[i] \cup {Invocation(count[i] + 1, "refresh")}
                /\ Cardinality(inflight'[i]) = Cardinality(inflight[i]) + 1]_vars

\* C30 witness: after a refresh(), a tick has started a load, emitted as not
\* forced.
C30_Witness ==
    /\ last.op = "tick"
    /\ last.started
    /\ count[last.i] = 3
    /\ Len(emitted) = 1
    /\ emitted[1].ev = "cache:log:load"
    /\ ~emitted[1].args[3]
    /\ emitted[1].args[5]

\* C31: count never decreases; it goes up by exactly one in the steps that
\* start a loader invocation of the instance, which then is in flight under
\* the new count, and in no other step: not at a tick that skips, the
\* completion or failure of a load, a shutdown or the passing of time; so it
\* is the number of invocations started, of which no more are in flight.
C31_CountIsLoadsStarted ==
    /\ [][\A i \in Insts :
            /\ count'[i] \in {count[i], count[i] + 1}
            /\ count'[i] = count[i] + 1 <=> (last'.started /\ last'.i = i)
            /\ count'[i] = count[i] + 1 <=>
                   (\E inv \in inflight'[i] \ inflight[i] : inv.n = count'[i])
            /\ count'[i] = count[i] => inflight'[i] \subseteq inflight[i]]_vars
    /\ [][(last'.op \in {"resolve", "reject", "destroy", "destroyAll", "time"}
           \/ (last'.op = "tick" /\ ~last'.started)) => count' = count]_vars
    /\ [](\A i \in Insts :
            /\ Cardinality(inflight[i]) <= count[i]
            /\ \A inv \in inflight[i] : inv.n \in 1 .. count[i]
            /\ \A a \in inflight[i], b \in inflight[i] : a.n = b.n => a = b)

\* C31 witness: of three loader invocations started on an instance one has
\* succeeded, one has failed and one is in flight.
C31_Witness ==
    \E i \in Insts :
        /\ count[i] = 3
        /\ Cardinality(inflight[i]) = 1
        /\ map[i] # EmptyMap
        /\ isOutdated[i]
        /\ ~shut[i]

====
